---- MODULE Spec2Model ----
(***************************************************************************)
(* A model of hangups' Client (src/hangups/client.py): the connection      *)
(* lifecycle (connect / disconnect around the Channel.listen task), the    *)
(* frame dispatcher _on_receive_array with the session bootstrap           *)
(* _add_channel_services, the active-client heartbeat set_active, and the  *)
(* generic request path _pb_request / _base_request.                       *)
(*                                                                         *)
(* The client runs on one asyncio event loop.  Coroutines are cooperative: *)
(* a coroutine runs without interruption from one suspension point to the  *)
(* next, so every action below is the code between two suspension points   *)
(* (an await of the listen future, of Channel.send_maps, of a subscriber,  *)
(* of http_utils.fetch).                                                   *)
(***************************************************************************)
EXTENDS Integers, Sequences, FiniteSets, TLC

(***************************************************************************)
(* Bounds of the model.                                                    *)
(***************************************************************************)
MaxFrames == 2
MaxBatch == 2
MaxCallers == 2
MaxTicks == 2
StartTime == 100

(***************************************************************************)
(* Program constants.                                                      *)
(***************************************************************************)
ACTIVE_TIMEOUT_SECS == 120
SETACTIVECLIENT_LIMIT_SECS == 60
RESPONSE_STATUS_OK == 1

None == "None"
IS_ACTIVE == "ACTIVE_CLIENT_STATE_IS_ACTIVE"
OTHER_ACTIVE == "ACTIVE_CLIENT_STATE_OTHER_ACTIVE"

\* The active states a StateUpdate header can report.
ReportedStates == {IS_ACTIVE, OTHER_ACTIVE}
\* The client ids (session ids) the server can hand out.
ClientIds == {"sess-1", "sess-2"}
\* The account's email address, as getselfinfo reports it.
Emails == {"a@b"}
\* The clock advances in steps of these many seconds.
TickSteps == {1, 60}

required_cookies == <<"SAPISID", "HSID", "SSID", "APISID", "SID">>
RequiredSet == {required_cookies[i] : i \in 1..Len(required_cookies)}

VARIABLES
    cookies,              \* self._cookies: the names of the cookies provided
    connector,            \* self._connector: "open" or "closed"
    listen_future,        \* self._listen_future: None, pending, or its outcome
    client_id,            \* self._client_id
    email,                \* self._email
    last_active_secs,     \* self._last_active_secs
    active_client_state,  \* self._active_client_state
    resource,             \* self._request_header.client_identifier.resource
    now,                  \* time.time()
    connPc, connErr,      \* the call of connect(): position and failure raised
    discPc, discErr,      \* the call of disconnect(): position and failure raised
    listenPc,             \* the Channel.listen task: where it is suspended
    cancelReq,            \* Task.cancel() was called on the running listen task
    new_id,               \* facet "3" of the frame being handled, None without one
    pending,              \* facet "2" of the frame whose bootstrap is being sent
    rest,                 \* records of the current batch not yet dispatched
    batch_update,         \* the states the records of the batch decoded last report
    inFlight,             \* ids of the records whose subscribers are running
    delivered,            \* ids of the records fired to on_state_update, in order
    nFrames,              \* frames handed to _on_receive_array so far
    nSessFrames,          \* of these, frames with a "3" (new client_id) facet
    mapsSent,             \* calls of Channel.send_maps so far
    srvSeq,               \* records decoded from batches so far (server order)
    last_frame,           \* what the frame handled last was taken for
    sa,                   \* the invocations of set_active()
    last_assertion,       \* when setactiveclient was requested last, and whether a
                          \* record has reported another state since
    rpc                   \* an application's call of a request method

lifeVars == <<connector, listen_future, connPc, connErr, discPc, discErr,
              listenPc, cancelReq>>
dispVars == <<new_id, pending, rest, batch_update, inFlight, delivered, nFrames,
              nSessFrames, mapsSent, srvSeq, last_frame>>
sessVars == <<client_id, email, last_active_secs, active_client_state, resource>>
vars == <<cookies, now, lifeVars, dispVars, sessVars, sa, last_assertion,
          rpc>>


(***************************************************************************)
(* Incoming frames.  A frame is the keep-alive "noop" or a wrapper with    *)
(* two optional facets: "3" (a new client_id) and "2" (a JSON array whose  *)
(* first item is a marker; after the marker "cbu" come the StateUpdates,   *)
(* each given here by the active client state its header reports).         *)
(***************************************************************************)
Absent == <<>>
Markers == {"cbu", "other"}

RECURSIVE SeqsUpTo(_, _)
SeqsUpTo(S, n) ==
    IF n = 0 THEN {<<>>}
    ELSE SeqsUpTo(S, n - 1) \cup
         {Append(q, x) : q \in {r \in SeqsUpTo(S, n - 1) : Len(r) = n - 1}, x \in S}

\* wrapper['2']['2'] after json.loads: <<marker, item, ...>>
Payloads == {<<m>> \o q : m \in Markers, q \in SeqsUpTo(ReportedStates, MaxBatch)}
Wrappers == [noop : {FALSE}, sid : ClientIds \cup {None},
             payload : Payloads \cup {Absent}]
\* array[0] == 'noop'
NoopFrame == [noop |-> TRUE, sid |-> None, payload |-> Absent]
Frames == {NoopFrame} \cup Wrappers

(***************************************************************************)
(* Client.__init__                                                         *)
(***************************************************************************)
IdleCall ==
    [pc |-> "idle", err |-> None, t0 |-> 0, wasActive |-> FALSE,
     ready |-> FALSE, nLookup |-> 0, nAssert |-> 0, lookupFailed |-> FALSE,
     req |-> {}]
NoResult == [kind |-> None, msg |-> <<>>, value |-> {}]
IdleRpc ==
    [pc |-> "idle", endpoint |-> None, hdr |-> None, sid |-> None,
     client_generated_id |-> {}, resp |-> {}, result |-> NoResult,
     nFetch |-> 0]

\* The cookie dictionaries a client is constructed with: complete, or with
\* one of the required cookies missing.
CookieJars == {RequiredSet} \cup {RequiredSet \ {c} : c \in RequiredSet}

Init ==
    /\ cookies \in CookieJars
    /\ connector = "open"
    /\ listen_future = None
    /\ client_id = None
    /\ email = None
    /\ last_active_secs = 0
    /\ active_client_state = None
    /\ resource = None
    /\ now = StartTime
    /\ connPc = "idle" /\ connErr = None
    /\ discPc = "idle" /\ discErr = None
    /\ listenPc = "none"
    /\ cancelReq = FALSE
    /\ new_id = None
    /\ pending = Absent
    /\ rest = <<>>
    /\ batch_update = <<>>
    /\ inFlight = {}
    /\ delivered = <<>>
    /\ nFrames = 0 /\ nSessFrames = 0 /\ mapsSent = 0 /\ srvSeq = 0
    /\ last_frame = None
    /\ sa = [c \in 1..MaxCallers |-> IdleCall]
    /\ last_assertion = {}
    /\ rpc = IdleRpc

(***************************************************************************)
(* time.time(): the clock only moves forward.                              *)
(***************************************************************************)
Elapsed == now - StartTime
TicksUsed == (Elapsed \div 60) + (Elapsed % 60)

\* The clock moves on by d seconds.
TickBy(d) ==
    /\ TicksUsed < MaxTicks
    /\ now' = now + d
    /\ UNCHANGED <<cookies, lifeVars, dispVars, sessVars, sa, last_assertion,
                   rpc>>

Tick == \E d \in TickSteps : TickBy(d)

(***************************************************************************)
(* Client.connect and Client.disconnect                                    *)
(***************************************************************************)
\* connect(), lines 91-100: add the observers, start Channel.listen as a
\* task and suspend on its future.
Connect ==
    /\ connPc = "idle"
    /\ listen_future' = "pending"
    /\ listenPc' = "waiting"
    /\ connPc' = "awaiting"
    /\ UNCHANGED <<cookies, now, connector, connErr, discPc, discErr, cancelReq,
                   dispVars, sessVars, sa, last_assertion,
                   rpc>>

\* An await of the future without the except clause.
AwaitListen_NoCatch(fut) ==
    CASE fut = "cancelled" -> "CancelledError"
      [] fut = "returned" -> None
      [] fut = "failed" -> "ListenError"

\* An await of the future that swallows every exception.
AwaitListen_CatchAll(fut) == None

\* What "try: yield from self._listen_future / except CancelledError: pass"
\* leaves its caller with, by the outcome of the future.
AwaitListen(fut) ==
    CASE fut = "cancelled" -> None
      [] fut = "returned" -> None
      [] fut = "failed" -> "ListenError"

\* connect(), lines 100-104, once the future is done.
ConnectResume ==
    /\ connPc = "awaiting"
    /\ listen_future \in {"cancelled", "returned", "failed"}
    /\ LET e == AwaitListen(listen_future) IN
         IF e = None
         THEN /\ connector' = "closed"
              /\ connPc' = "returned"
              /\ UNCHANGED connErr
         ELSE /\ connPc' = "raised"
              /\ connErr' = e
              /\ UNCHANGED connector
    /\ UNCHANGED <<cookies, now, listen_future, discPc, discErr, listenPc,
                   cancelReq, dispVars, sessVars, sa, last_assertion,
                   rpc>>

\* disconnect(), lines 112-118.  Future.cancel() does nothing on a future
\* that is done; awaiting a done future does not suspend.
Disconnect ==
    /\ discPc = "idle"
    /\ IF listen_future = None
       THEN \* None has no cancel(): line 113 raises
            /\ discPc' = "raised"
            /\ discErr' = "AttributeError"
            /\ UNCHANGED cancelReq
       ELSE IF listen_future = "pending"
       THEN /\ cancelReq' = TRUE
            /\ discPc' = "awaiting"
            /\ UNCHANGED discErr
       ELSE LET e == AwaitListen(listen_future) IN
            /\ discPc' = IF e = None THEN "returned" ELSE "raised"
            /\ discErr' = e
            /\ UNCHANGED cancelReq
    /\ UNCHANGED <<cookies, now, connector, listen_future, connPc, connErr,
                   listenPc, dispVars, sessVars, sa, last_assertion,
                   rpc>>

\* disconnect(), lines 115-118, once the future is done.
DisconnectResume ==
    /\ discPc = "awaiting"
    /\ listen_future \in {"cancelled", "returned", "failed"}
    /\ LET e == AwaitListen(listen_future) IN
         /\ discPc' = IF e = None THEN "returned" ELSE "raised"
         /\ discErr' = e
    /\ UNCHANGED <<cookies, now, connector, listen_future, connPc, connErr,
                   listenPc, cancelReq, dispVars, sessVars, sa, last_assertion,
                   rpc>>

(***************************************************************************)
(* The Channel.listen task.  The channel is not part of client.py: the     *)
(* task delivers one frame at a time to the observers of on_receive_array  *)
(* and waits for them, observes a cancellation at its next suspension      *)
(* point and does not swallow it, and may end by itself.                   *)
(***************************************************************************)
\* Task.cancel() throws CancelledError into the task where it is suspended:
\* between frames, in send_maps, or in a subscriber.
ListenCancelled ==
    /\ cancelReq
    /\ listenPc \in {"waiting", "send_maps", "subscriber"}
    /\ listenPc' = "done"
    /\ listen_future' = "cancelled"
    /\ UNCHANGED <<cookies, now, connector, connPc, connErr, discPc, discErr,
                   cancelReq, dispVars, sessVars, sa, last_assertion,
                   rpc>>

\* The receive loop ends by itself: it returns, or it fails.
ListenEnds ==
    /\ ~cancelReq
    /\ listenPc = "waiting"
    /\ listenPc' = "done"
    /\ \E out \in {"returned", "failed"} : listen_future' = out
    /\ UNCHANGED <<cookies, now, connector, connPc, connErr, discPc, discErr,
                   cancelReq, dispVars, sessVars, sa, last_assertion,
                   rpc>>

(***************************************************************************)
(* Client._on_receive_array and Client._add_channel_services               *)
(***************************************************************************)
\* pblite.decode(batch_update, pblite_message, ignore_first_item=True): the
\* marker is dropped, the items that follow are the StateUpdates, numbered
\* here in the order the server sent them.
DecodeBatch(p, seq) ==
    [i \in 1..(Len(p) - 1) |-> [id |-> seq + i, st |-> p[i + 1]]]

\* A loop that takes the records from the wrong end.
NextRecord_Last(recs) == recs[Len(recs)]

\* "for state_update in batch_update.state_update": the record taken next.
NextRecord(recs) == Head(recs)

\* Event.fire returned: the subscribers of the record are done.
AfterHandling(fl, id) == fl \ {id}

\* A write that merges: a client that is active stays active.
OverwriteState_KeepActive(old, reported) ==
    IF old = IS_ACTIVE THEN old ELSE reported

\* Line 209: the state a record's header reports replaces the one stored.
OverwriteState(old, reported) == reported

\* The requests of set_active as the server sees them: a record that reports
\* a state other than ACTIVE (line 209) marks the last setactiveclient
\* request as followed by a loss of the ACTIVE state.
NoteUpdate(log, reported) ==
    IF reported = IS_ACTIVE THEN log
    ELSE {[a EXCEPT !.lost = TRUE] : a \in log}

\* Lines 206-210 for the next record of recs: overwrite the active client
\* state with the one its header reports, then fire on_state_update and
\* suspend until the subscribers are done.  fl: the records in flight.
DeliverFrom(recs, fl) ==
    LET r == NextRecord(recs) IN
    /\ active_client_state' = OverwriteState(active_client_state, r.st)
    /\ last_assertion' = NoteUpdate(last_assertion, r.st)
    /\ inFlight' = fl \cup {r.id}
    /\ delivered' = Append(delivered, r.id)
    /\ rest' = Tail(recs)
    /\ listenPc' = "subscriber"

\* A bootstrap that is sent for the first client_id only.
SendMaps_FirstOnly(n) == IF n = 0 THEN 1 ELSE n

\* _add_channel_services, lines 229-230: one call of Channel.send_maps, with
\* the one map that asks for the "babel" service.  n: the calls before it.
SendMaps(n) == n + 1

\* A dispatcher that decodes the facet "2" whatever its marker.
DispatchPayload_AnyMarker(p) ==
    IF p # Absent /\ Len(p) > 1
    THEN /\ DeliverFrom(DecodeBatch(p, srvSeq), inFlight)
         /\ batch_update' = Tail(p)
         /\ srvSeq' = srvSeq + Len(p) - 1
         /\ UNCHANGED new_id
    ELSE /\ listenPc' = "waiting"
         /\ new_id' = None
         /\ UNCHANGED <<active_client_state, inFlight, delivered, rest,
                        batch_update, srvSeq, last_assertion>>

\* Lines 198-212: facet "2" of a wrapper.
DispatchPayload(p) ==
    IF p # Absent /\ Head(p) = "cbu" /\ Len(p) > 1
    THEN /\ DeliverFrom(DecodeBatch(p, srvSeq), inFlight)
         /\ batch_update' = Tail(p)
         /\ srvSeq' = srvSeq + Len(p) - 1
         /\ UNCHANGED new_id
    ELSE \* no facet "2", an empty batch, or "Ignoring message"
         /\ listenPc' = "waiting"
         /\ new_id' = None
         /\ UNCHANGED <<active_client_state, inFlight, delivered, rest,
                        batch_update, srvSeq, last_assertion>>

\* A client that drops the client_id it has when another one arrives.
NewClientId_Forget(old, sid) == IF old = None THEN sid ELSE None

\* A client that keeps the first client_id it was given.
NewClientId_KeepFirst(old, sid) == IF old = None THEN sid ELSE old

\* Line 193: self._client_id = wrapper['3']['2']
NewClientId(old, sid) == sid

\* Whether the listen task takes the next frame from the channel: only
\* between frames, once the observers of the previous frame are done.
ReadyForFrame == listenPc = "waiting" /\ ~cancelReq

\* What _on_receive_array takes a frame for: the keep-alive of line 184, a
\* wrapper whose facet "2" does not start with the marker "cbu" (logged by
\* line 212 as 'Ignoring message'), or any other wrapper.
FrameKind(f) ==
    IF f.noop THEN "noop"
    ELSE IF f.payload # Absent /\ Head(f.payload) # "cbu" THEN "ignored"
    ELSE "wrapper"

\* A dispatcher that sends the bootstrap for every frame, keep-alives too.
OnKeepalive_Bootstraps ==
    /\ mapsSent' = SendMaps(mapsSent)
    /\ UNCHANGED <<listenPc, client_id, active_client_state, new_id, pending,
                   rest, batch_update, inFlight, delivered, nSessFrames,
                   srvSeq, last_assertion>>

\* Lines 184-186: "pass", the keep-alive is dropped.
OnKeepalive ==
    UNCHANGED <<listenPc, client_id, active_client_state, new_id, pending,
                rest, batch_update, inFlight, delivered, nSessFrames,
                mapsSent, srvSeq, last_assertion>>

\* _on_receive_array(array) for the frame f, up to its first suspension
\* point (lines 184-197, or 184-212 when the frame has no facet "3").
OnReceiveArray(f) ==
    /\ nFrames' = nFrames + 1
    /\ last_frame' = FrameKind(f)
    /\ IF f.noop
       THEN OnKeepalive
       ELSE IF f.sid # None
       THEN \* lines 193-197 and 229-230: up to the await of send_maps
            /\ client_id' = NewClientId(client_id, f.sid)
            /\ new_id' = f.sid
            /\ nSessFrames' = nSessFrames + 1
            /\ mapsSent' = SendMaps(mapsSent)
            /\ pending' = f.payload
            /\ listenPc' = "send_maps"
            /\ UNCHANGED <<active_client_state, rest, batch_update,
                           inFlight, delivered, srvSeq, last_assertion>>
       ELSE /\ DispatchPayload(f.payload)
            /\ UNCHANGED <<client_id, pending, nSessFrames, mapsSent>>
    /\ UNCHANGED <<cookies, now, connector, listen_future, connPc, connErr,
                   discPc, discErr, cancelReq, email, last_active_secs,
                   resource, sa, rpc>>

\* Channel.listen fires on_receive_array with the next frame of the channel,
\* one of the frames of S.
ReceiveFrom(S) ==
    /\ ReadyForFrame
    /\ nFrames < MaxFrames
    /\ \E f \in S : OnReceiveArray(f)

ReceiveFrame == ReceiveFrom(Frames)

\* Channel.send_maps returned: _add_channel_services returns (line 231) and
\* _on_receive_array goes on with facet "2" of the same frame.
SendMapsDone ==
    /\ listenPc = "send_maps"
    /\ ~cancelReq
    /\ DispatchPayload(pending)
    /\ pending' = Absent
    /\ UNCHANGED <<cookies, now, connector, listen_future, connPc, connErr,
                   discPc, discErr, cancelReq, client_id, email,
                   last_active_secs, resource, nFrames, nSessFrames, mapsSent,
                   last_frame, sa, rpc>>

\* Channel.send_maps failed: nothing in _add_channel_services or in
\* _on_receive_array catches the failure, so it leaves _on_receive_array
\* before line 198 and reaches Channel.listen, which tries again or fails.
SendMapsFails ==
    /\ listenPc = "send_maps"
    /\ ~cancelReq
    /\ pending' = Absent
    /\ new_id' = None
    /\ \E survives \in BOOLEAN :
         IF survives
         THEN listenPc' = "waiting" /\ UNCHANGED listen_future
         ELSE listenPc' = "done" /\ listen_future' = "failed"
    /\ UNCHANGED <<cookies, now, connector, connPc, connErr, discPc, discErr,
                   cancelReq, sessVars, rest, batch_update, inFlight,
                   delivered, nFrames, nSessFrames, mapsSent, srvSeq,
                   last_frame, sa, last_assertion, rpc>>

\* The subscribers of the record in flight are done: on_state_update.fire
\* returns (line 210) and the loop of line 206 takes the next record.
SubscriberDone ==
    /\ listenPc = "subscriber"
    /\ ~cancelReq
    /\ LET fl == AfterHandling(inFlight, delivered[Len(delivered)]) IN
         IF rest # <<>>
         THEN /\ DeliverFrom(rest, fl)
              /\ UNCHANGED new_id
         ELSE /\ inFlight' = fl
              /\ listenPc' = "waiting"
              /\ new_id' = None
              /\ UNCHANGED <<active_client_state, delivered, rest,
                             last_assertion>>
    /\ UNCHANGED <<cookies, now, connector, listen_future, connPc, connErr,
                   discPc, discErr, cancelReq, client_id, email,
                   last_active_secs, resource, pending, batch_update, nFrames,
                   nSessFrames, mapsSent, srvSeq, last_frame, sa, rpc>>

(***************************************************************************)
(* The request path: _get_cookie, _base_request, _pb_request               *)
(***************************************************************************)
RECURSIVE FirstMissing(_, _)
FirstMissing(names, ck) ==
    IF names = <<>> THEN None
    ELSE IF Head(names) \notin ck THEN Head(names)
    ELSE FirstMissing(Tail(names), ck)

\* A _base_request that looks up the cookie of the authorization header only.
MissingCookie_SapisidOnly(ck) ==
    IF "SAPISID" \notin ck THEN "SAPISID" ELSE None

\* _base_request, lines 283-288: the cookie whose lookup raises KeyError,
\* None when every required cookie is there.
MissingCookie(ck) ==
    IF "SAPISID" \notin ck THEN "SAPISID" ELSE FirstMissing(required_cookies, ck)

\* _get_cookie, line 179
CookieError(name) ==
    [kind |-> "KeyError", msg |-> <<"Cookie '", name, "' is required">>,
     value |-> {}]

\* A header that is filled in once and never refreshed.
HeaderResource_SetOnce ==
    IF resource = None /\ client_id # None THEN client_id ELSE resource

\* _get_request_header_pb, lines 303-305: the resource after the call
HeaderResource == IF client_id # None THEN client_id ELSE resource

\* str.format of an integer
Digits == <<"0", "1", "2", "3", "4", "5", "6", "7", "8", "9">>
RECURSIVE DecStr(_)
DecStr(n) ==
    IF n < 10 THEN <<Digits[n + 1]>>
    ELSE DecStr(n \div 10) \o <<Digits[(n % 10) + 1]>>

\* Lines 260-261: the text of the NetworkError, character by character
\* after the fixed opening words.
FailMessage(status, description) ==
    <<"Request failed with status ">> \o DecStr(status) \o <<":", " ", "'">>
        \o description \o <<"'">>

\* What http_utils.fetch hands back: it fails with a NetworkError of its
\* own, or gives a body that decodes to a response with a status, an error
\* description and (for getselfinfo) the email addresses of the account.
Statuses == {RESPONSE_STATUS_OK, 3, 13}
Descriptions == {<<>>, <<"n", "o", ":", "'">>}
FetchFailed ==
    [failed |-> TRUE, status |-> 0, description |-> <<>>, email |-> <<>>]
Responses(emails) ==
    [failed : {FALSE}, status : Statuses, description : Descriptions,
     email : emails]
FetchOutcomes(emails) == {FetchFailed} \cup Responses(emails)

\* A _pb_request that does not look at the status.
PbRequest_NoStatusCheck(o) ==
    IF o.failed
    THEN [kind |-> "NetworkError", msg |-> <<"fetch failed">>, value |-> {}]
    ELSE [kind |-> "return", msg |-> <<>>, value |-> {o}]

\* _pb_request, lines 253-262, with the fetch outcome o: what the request
\* method (which returns the response it had decoded into) ends with.
PbRequest(o) ==
    IF o.failed
    THEN [kind |-> "NetworkError", msg |-> <<"fetch failed">>, value |-> {}]
    ELSE IF o.status # RESPONSE_STATUS_OK
    THEN [kind |-> "NetworkError",
          msg |-> FailMessage(o.status, o.description), value |-> {}]
    ELSE [kind |-> "return", msg |-> <<>>, value |-> {o}]

(***************************************************************************)
(* An application's calls of request methods (sendchatmessage, ...), one    *)
(* after the other.  rpc is the call made last: the endpoint, the resource  *)
(* of the header copied into the request (hdr), the client_id at the time   *)
(* the request was built (sid), the fetches issued, and how it ended.       *)
(***************************************************************************)
Endpoints == {"conversations/sendchatmessage", "contacts/getentitybyid"}

(***************************************************************************)
(* get_client_generated_id.  The ids reach 2**32, beyond the integers of   *)
(* the model checker, so an id is kept as two halves of 16 bits each       *)
(* (hi * 2**16 + lo); 2**32 itself is the id with hi = 2**16 and lo = 0.    *)
(***************************************************************************)
Half == 2^16
IdValue(hi, lo) == [hi |-> hi, lo |-> lo]

\* a <= b for two ids
IdLeq(a, b) == a.hi < b.hi \/ (a.hi = b.hi /\ a.lo <= b.lo)

\* The ids looked at, of the 2**32 + 1 there are: 0, 2**32 - 1 and 2**32, and
\* 2**32 + 2**16 - 1, which is beyond the range whatever the end points.
IdSamples ==
    {IdValue(0, 0), IdValue(Half - 1, Half - 1), IdValue(Half, 0),
     IdValue(Half, Half - 1)}

\* random.randint(a, b): "random integer in range [a, b], including both
\* end points".
randint(a, b) == {v \in IdSamples : IdLeq(a, v) /\ IdLeq(v, b)}

\* Line 309: random.randint(0, 2**32)
get_client_generated_id == randint(IdValue(0, 0), IdValue(Half, 0))

\* The client_generated_id fields of the request an endpoint takes: the
\* EventRequestHeader of sendchatmessage has one (line 379).
GeneratedIds(ep) ==
    IF ep = "conversations/sendchatmessage"
    THEN {{id} : id \in get_client_generated_id}
    ELSE {{}}

\* The request method up to the await of http_utils.fetch: the header is
\* filled in, then _base_request looks the cookies up.
RpcCall ==
    /\ rpc.pc # "fetch"
    /\ resource' = HeaderResource
    /\ \E ep \in Endpoints : \E ids \in GeneratedIds(ep) :
         LET miss == MissingCookie(cookies)
             call == [IdleRpc EXCEPT !.endpoint = ep, !.hdr = HeaderResource,
                                     !.sid = client_id,
                                     !.client_generated_id = ids]
         IN
         IF miss # None
         THEN rpc' = [call EXCEPT !.pc = "raised", !.result = CookieError(miss)]
         ELSE rpc' = [call EXCEPT !.pc = "fetch", !.nFetch = @ + 1]
    /\ UNCHANGED <<cookies, now, lifeVars, dispVars, client_id, email,
                   last_active_secs, active_client_state, sa, last_assertion>>

\* A request method that tries once more when its first attempt fails.
AfterFetch_Retry(call, o) ==
    LET r == PbRequest(o) IN
    IF r.kind = "NetworkError" /\ call.nFetch < 2
    THEN [call EXCEPT !.resp = {o}, !.nFetch = @ + 1]
    ELSE [call EXCEPT !.pc = IF r.kind = "return" THEN "returned"
                              ELSE "raised",
                      !.resp = {o}, !.result = r]

\* Lines 248-262 and the return of the request method: with the outcome o
\* of its one fetch the call returns the decoded response or raises.
AfterFetch(call, o) ==
    LET r == PbRequest(o) IN
    [call EXCEPT !.pc = IF r.kind = "return" THEN "returned" ELSE "raised",
                 !.resp = {o}, !.result = r]

\* The fetch is over: _pb_request decodes and checks the status.
RpcReturn ==
    /\ rpc.pc = "fetch"
    /\ \E o \in FetchOutcomes({<<>>}) : rpc' = AfterFetch(rpc, o)
    /\ UNCHANGED <<cookies, now, lifeVars, dispVars, sessVars, sa,
                   last_assertion>>

(***************************************************************************)
(* Client.set_active.  Each call is one entry of sa; the calls are made    *)
(* in the order of their numbers and may overlap: a call is suspended      *)
(* while its getselfinfo ("lookup") or setactiveclient ("assert") request  *)
(* is awaited.  An entry keeps when the call started (t0), whether it      *)
(* found the state ACTIVE (wasActive) and both the email and the client_id *)
(* known (ready), the requests it has issued, that is, the fetches that     *)
(* reached http_utils.fetch, and whether it logged 'Failed to find email    *)
(* address' (lookupFailed), and the SetActiveClientRequest it built (req).  *)
(***************************************************************************)
\* A gate that compares the state with the wrong value: never "is_active".
NeedsCall_NeverActive(state, last, t) == TRUE

\* A gate that takes a call made exactly at the limit for timed out.
NeedsCall_AtLimit(state, last, t) ==
    LET is_active == state = IS_ACTIVE
        timed_out == t - last >= SETACTIVECLIENT_LIMIT_SECS
    IN  ~is_active \/ timed_out

\* A gate that never takes the state for timed out.
NeedsCall_StateOnly(state, last, t) == state # IS_ACTIVE

\* A gate that looks at the clock only, whatever the state.
NeedsCall_TimeoutOnly(state, last, t) ==
    t - last > SETACTIVECLIENT_LIMIT_SECS

\* A gate that asks for both conditions instead of either.
NeedsCall_Both(state, last, t) ==
    LET is_active == state = IS_ACTIVE
        timed_out == t - last > SETACTIVECLIENT_LIMIT_SECS
    IN  ~is_active /\ timed_out

\* Lines 129-133
NeedsCall(state, last, t) ==
    LET is_active == state = IS_ACTIVE
        timed_out == t - last > SETACTIVECLIENT_LIMIT_SECS
    IN  ~is_active \/ timed_out

\* A set_active that leaves the state as it is until its request is over.
OptimisticState_Deferred(old) == old

\* Lines 136-138: the state is marked ACTIVE before any request is made.
OptimisticState(old) == IS_ACTIVE

\* A set_active that looks the email up whether it has it or not.
NeedsLookup_Always(e) == TRUE

\* Line 143
NeedsLookup(e) == e = None

\* A request method called from set_active, up to the await of the fetch:
\* _base_request raises KeyError before the fetch when a cookie is missing,
\* and set_active catches NetworkError only.
IssueRequest(call, pcname, counter) ==
    IF MissingCookie(cookies) # None
    THEN [call EXCEPT !.pc = "raised", !.err = "KeyError"]
    ELSE [call EXCEPT !.pc = pcname, ![counter] = @ + 1]

\* An address without the client_id.
FullJid_EmailOnly(em, id) == <<em>>

\* Line 405: "{}/{}".format(self._email, self._client_id)
FullJid(em, id) == <<em, "/", id>>

\* setactiveclient(True, ACTIVE_TIMEOUT_SECS), lines 402-407: the request
\* built for the email em and the client_id of the moment.
SetActiveClientRequest(em) ==
    [is_active |-> TRUE, full_jid |-> FullJid(em, client_id),
     timeout_secs |-> ACTIVE_TIMEOUT_SECS]

\* A set_active without the check of the client_id.
AssertOrReturn_NoIdCheck(call, em) ==
    IssueRequest([call EXCEPT !.req = {SetActiveClientRequest(em)}],
                 "assert", "nAssert")

\* Lines 156-163: return when the client_id is not known yet, else call
\* setactiveclient(True, ACTIVE_TIMEOUT_SECS).  em: self._email by then.
AssertOrReturn(call, em) ==
    IF client_id = None
    THEN [call EXCEPT !.pc = "returned"]
    ELSE IssueRequest([call EXCEPT !.req = {SetActiveClientRequest(em)}],
                      "assert", "nAssert")

\* A set_active that logs the failed lookup and goes on.
LookupFailure_GoesOn(call) ==
    AssertOrReturn([call EXCEPT !.lookupFailed = TRUE], email)

\* Lines 146-149: the NetworkError of getselfinfo is logged and the call
\* returns.
LookupFailure(call) ==
    [call EXCEPT !.pc = "returned", !.lookupFailed = TRUE]

\* Line 163: when the step that takes a call from before to after has
\* passed a setactiveclient request to http_utils.fetch, it is the request
\* made last, at the time of the clock.
NoteAssertion(log, before, after) ==
    IF after.nAssert > before.nAssert
    THEN {[t |-> now, lost |-> FALSE]}
    ELSE log

\* set_active() from its call to its first suspension point, or to its end.
SetActive(c) ==
    /\ sa[c].pc = "idle"
    /\ IF c = 1 THEN TRUE ELSE sa[c - 1].pc # "idle"
    /\ LET call == [sa[c] EXCEPT
                       !.t0 = now,
                       !.wasActive = (active_client_state = IS_ACTIVE),
                       !.ready = (email # None /\ client_id # None)]
       IN
       IF ~NeedsCall(active_client_state, last_active_secs, now)
       THEN /\ sa' = [sa EXCEPT ![c] = [call EXCEPT !.pc = "returned"]]
            /\ UNCHANGED <<active_client_state, last_active_secs, resource,
                           last_assertion>>
       ELSE /\ active_client_state' = OptimisticState(active_client_state)
            /\ last_active_secs' = now
            /\ IF NeedsLookup(email)
               THEN \* getselfinfo(), lines 621-625
                    /\ sa' = [sa EXCEPT ![c] =
                                 IssueRequest(call, "lookup", "nLookup")]
                    /\ resource' = HeaderResource
               ELSE /\ sa' = [sa EXCEPT ![c] = AssertOrReturn(call, email)]
                    /\ resource' = HeaderResource
            /\ last_assertion' = NoteAssertion(last_assertion, sa[c], sa'[c])
    /\ UNCHANGED <<cookies, now, lifeVars, dispVars, client_id, email, rpc>>

\* The getselfinfo request of call c is over (lines 145-163).
LookupReturn(c) ==
    /\ sa[c].pc = "lookup"
    /\ \E o \in FetchOutcomes({<<>>} \cup {<<e>> : e \in Emails}) :
         LET r == PbRequest(o) IN
         IF r.kind = "NetworkError"
         THEN \* lines 146-149
              /\ sa' = [sa EXCEPT ![c] = LookupFailure(sa[c])]
              /\ last_assertion' = NoteAssertion(last_assertion, sa[c], sa'[c])
              /\ UNCHANGED <<email, resource>>
         ELSE IF o.email = <<>>
         THEN \* line 151: email[0] of an empty list
              /\ sa' = [sa EXCEPT ![c].pc = "raised", ![c].err = "IndexError"]
              /\ UNCHANGED <<email, resource, last_assertion>>
         ELSE /\ email' = o.email[1]
              /\ sa' = [sa EXCEPT ![c] = AssertOrReturn(sa[c], o.email[1])]
              /\ last_assertion' = NoteAssertion(last_assertion, sa[c], sa'[c])
              /\ resource' = HeaderResource
    /\ UNCHANGED <<cookies, now, lifeVars, dispVars, client_id,
                   last_active_secs, active_client_state, rpc>>

\* The setactiveclient request of call c is over (lines 163-168): a
\* NetworkError is logged, as is success.
AssertReturn(c) ==
    /\ sa[c].pc = "assert"
    /\ sa' = [sa EXCEPT ![c].pc = "returned"]
    /\ UNCHANGED <<cookies, now, lifeVars, dispVars, sessVars, last_assertion,
                   rpc>>

(***************************************************************************)
(* An application that goes on calling set_active().  The entries of sa    *)
(* are taken again once the calls they stand for are over.  The code only  *)
(* compares differences of times with SETACTIVECLIENT_LIMIT_SECS (lines    *)
(* 131-132), so when the entries are taken again the clock is set back to  *)
(* StartTime and the times kept are moved with it; a time further back     *)
(* than the limit is kept just beyond the limit.                           *)
(***************************************************************************)
\* time.time() - t as line 131 uses it: how long ago t was.
Age(t) ==
    IF now - t > SETACTIVECLIENT_LIMIT_SECS
    THEN SETACTIVECLIENT_LIMIT_SECS + 1
    ELSE now - t

\* The time t when the clock is set back to StartTime.
Rebase(t) == StartTime - Age(t)

\* The clock has gone past the limit of line 132.
LongTick == TickBy(SETACTIVECLIENT_LIMIT_SECS + 1)

\* The frames a connection brings at the least: keep-alives, the wrappers
\* with a client_id and the batches of one StateUpdate.
PlainFrames ==
    {f \in Frames : f.payload # Absent => Head(f.payload) = "cbu"
                                           /\ Len(f.payload) = 2}

\* The calls of set_active() made so far have returned or raised: the
\* application is free to make its next calls.
CallsOver ==
    /\ \A c \in 1..MaxCallers : sa[c].pc \in {"returned", "raised"}
    /\ sa' = [c \in 1..MaxCallers |-> IdleCall]
    /\ now' = StartTime
    /\ last_active_secs' = Rebase(last_active_secs)
    /\ last_assertion' = {[a EXCEPT !.t = Rebase(a.t)] : a \in last_assertion}
    /\ UNCHANGED <<cookies, lifeVars, dispVars, client_id, email,
                   active_client_state, resource, rpc>>

(***************************************************************************)
(* The system                                                              *)
(***************************************************************************)
Next ==
    \/ Tick
    \/ Connect
    \/ ConnectResume
    \/ Disconnect
    \/ DisconnectResume
    \/ ListenCancelled
    \/ ListenEnds
    \/ ReceiveFrame
    \/ SendMapsDone
    \/ SendMapsFails
    \/ SubscriberDone
    \/ RpcCall
    \/ RpcReturn
    \/ \E c \in 1..MaxCallers : SetActive(c)
    \/ \E c \in 1..MaxCallers : LookupReturn(c)
    \/ \E c \in 1..MaxCallers : AssertReturn(c)

Spec == Init /\ [][Next]_vars

(***************************************************************************)
(* The components on their own.  The lifecycle and the dispatcher never    *)
(* read the clock, the heartbeat's or the request methods' state; the      *)
(* heartbeat reads what the dispatcher writes (client_id and the active    *)
(* client state); a request method reads the cookies and the client_id.    *)
(***************************************************************************)
Dispatcher ==
    \/ ReceiveFrame
    \/ SendMapsDone
    \/ SendMapsFails
    \/ SubscriberDone

NextLifecycle ==
    \/ Connect
    \/ ConnectResume
    \/ Disconnect
    \/ DisconnectResume
    \/ ListenCancelled
    \/ ListenEnds
    \/ Dispatcher

NextHeartbeat ==
    \/ Tick
    \/ Connect
    \/ Dispatcher
    \/ \E c \in 1..MaxCallers : SetActive(c)
    \/ \E c \in 1..MaxCallers : LookupReturn(c)
    \/ \E c \in 1..MaxCallers : AssertReturn(c)

NextRequests ==
    \/ Connect
    \/ Dispatcher
    \/ RpcCall
    \/ RpcReturn

NextKeepCalling ==
    \/ LongTick
    \/ Connect
    \/ ReceiveFrom(PlainFrames)
    \/ SendMapsDone
    \/ SendMapsFails
    \/ SubscriberDone
    \/ \E c \in 1..MaxCallers : SetActive(c)
    \/ \E c \in 1..MaxCallers : LookupReturn(c)
    \/ \E c \in 1..MaxCallers : AssertReturn(c)
    \/ CallsOver

SpecLifecycle == Init /\ [][NextLifecycle]_vars
SpecHeartbeat == Init /\ [][NextHeartbeat]_vars
SpecRequests == Init /\ [][NextRequests]_vars

\* The event loop resumes every coroutine whose awaited call is over: the
\* requests of set_active() come back, send_maps and the subscribers finish,
\* and a call that is over leaves its entry free; and the clock goes on.
\* When set_active() is called and when frames arrive is left open.
FairKeepCalling ==
    /\ Init
    /\ [][NextKeepCalling]_vars
    /\ WF_vars(LongTick)
    /\ \A c \in 1..MaxCallers : WF_vars(LookupReturn(c))
    /\ \A c \in 1..MaxCallers : WF_vars(AssertReturn(c))
    /\ WF_vars(SendMapsDone \/ SendMapsFails)
    /\ WF_vars(SubscriberDone)
    /\ WF_vars(CallsOver)

\* The event loop runs every callback that is ready: a cancelled task is
\* stepped, and the coroutines waiting for a finished future are resumed.
FairLifecycle ==
    /\ SpecLifecycle
    /\ WF_vars(ListenCancelled)
    /\ WF_vars(ConnectResume)
    /\ WF_vars(DisconnectResume)

(***************************************************************************)
(* Claims                                                                  *)
(***************************************************************************)
Done == {"returned", "raised"}
FutureDone == {"cancelled", "returned", "failed"}

\* C1: the StateUpdates are fired to on_state_update in exactly the order
\* in which the decoded batches hold them, across frames (the k-th record
\* fired is the k-th record decoded), a record is fired only when the
\* subscribers of the one before it are done (never two in flight), and
\* between two frames every decoded record has been fired and handled.
C1_OrderedDelivery ==
    /\ \A i \in 1..Len(delivered) : delivered[i] = i
    /\ Len(delivered) <= srvSeq
    /\ Cardinality(inFlight) <= 1
    /\ \A id \in inFlight : id = delivered[Len(delivered)]
    /\ listenPc = "waiting" => inFlight = {} /\ Len(delivered) = srvSeq

C1_Witness ==
    /\ nFrames >= 2
    /\ Len(delivered) >= 3
    /\ inFlight = {Len(delivered)}
    /\ rest # <<>>

\* C2: every frame received with a facet "3" has caused exactly one call of
\* Channel.send_maps, made in the step that stored the new client_id and so
\* before anything of a later frame is handled: the calls of send_maps and
\* the frames with a new client_id are equal in number at all times, on the
\* first connection and after a reconnection, and while the bootstrap is
\* awaited no frame is taken and no record is in flight.
C2_OneBootstrapPerSession ==
    /\ mapsSent = nSessFrames
    /\ listenPc = "send_maps" =>
         /\ ~ENABLED ReceiveFrame
         /\ inFlight = {}
         /\ client_id # None

C2_Witness ==
    /\ nSessFrames = 2
    /\ mapsSent = 2
    /\ listenPc = "send_maps"
    /\ delivered # <<>>

\* C9: once disconnect() has been called while connect() was pending,
\* connect() ends (it "returns" in the sense of its docstring: it is pending
\* no longer); neither call ever ends with a CancelledError; when the
\* receive loop was running as disconnect() cancelled it, both calls
\* return normally; and whenever disconnect() has ended after a connection
\* was started, the listen task is finished.
C9_DisconnectEndsConnect ==
    /\ [](connErr # "CancelledError" /\ discErr # "CancelledError")
    /\ [](cancelReq /\ connPc \in Done => connPc = "returned")
    /\ [](cancelReq /\ discPc \in Done => discPc = "returned")
    /\ [](discPc \in Done /\ discErr # "AttributeError"
            => listen_future \in FutureDone /\ listenPc = "done")
    /\ (connPc = "awaiting" /\ discPc # "idle" /\ discErr # "AttributeError")
           ~> (connPc \in Done)

C9_Witness ==
    /\ cancelReq
    /\ listen_future = "cancelled"
    /\ connPc = "returned"
    /\ discPc = "returned"
    /\ nFrames > 0

\* C10: whenever connect() has ended, by returning or by raising, the
\* connector is closed.
C10_ConnectorReleased ==
    connPc \in Done => connector = "closed"

\* C11: when connect() has ended and the receive loop was cancelled,
\* connect() has returned normally and reports no failure; when the receive
\* loop ended with a failure of its own, connect() has raised that failure;
\* when the loop returned, connect() has returned.
C11_OnlyCancellationSuppressed ==
    connPc \in Done =>
        /\ listen_future \in FutureDone
        /\ listen_future = "cancelled" => connPc = "returned" /\ connErr = None
        /\ listen_future = "returned" => connPc = "returned" /\ connErr = None
        /\ listen_future = "failed" => connPc = "raised" /\ connErr = "ListenError"

C11_Witness ==
    /\ listen_future = "failed"
    /\ connPc = "raised"
    /\ connErr = "ListenError"
    /\ nFrames > 0

\* C12: the record in flight is the next one of the batch decoded last, and
\* the active client state was overwritten with the state that record
\* reports before its subscribers run; no record is skipped (the records
\* still to come are the rest of the batch); and between frames, with no
\* set_active() in between, the state is the one the last record of the
\* last batch reported.  In particular, after one frame with a client_id
\* and the batch [ACTIVE, OTHER_ACTIVE]: one call of send_maps, the two
\* records fired in order, and the state OTHER_ACTIVE.
C12_LastWriteWins ==
    LET n == Len(batch_update)
        k == n - Len(rest)
    IN
    /\ \A i \in 1..Len(rest) : k + i \in 1..n /\ rest[i].st = batch_update[k + i]
    /\ listenPc = "subscriber" =>
         /\ k \in 1..n
         /\ active_client_state = batch_update[k]
    /\ listenPc \in {"waiting", "send_maps"} /\ n > 0 =>
         active_client_state = batch_update[n]
    /\ ( /\ listenPc = "waiting"
         /\ nSessFrames = 1
         /\ srvSeq = 2
         /\ batch_update = <<IS_ACTIVE, OTHER_ACTIVE>> ) =>
         /\ mapsSent = 1
         /\ delivered = <<1, 2>>
         /\ active_client_state = OTHER_ACTIVE

C12_Witness ==
    /\ listenPc = "waiting"
    /\ client_id = "sess-1"
    /\ nSessFrames = 1
    /\ mapsSent = 1
    /\ batch_update = <<IS_ACTIVE, OTHER_ACTIVE>>
    /\ delivered = <<1, 2>>
    /\ inFlight = {}
    /\ active_client_state = OTHER_ACTIVE

\* C13: as long as no client_id has been received the header template has
\* no resource and neither has the header of a request; the header of every
\* request carries the client_id that was current when the request was
\* built (none, the first one, or after a reconnection the new one), also
\* when the template still held an older id before the call.
C13_ResourceIsCurrentId ==
    /\ client_id = None => resource = None
    /\ nSessFrames = 0 => client_id = None
    /\ rpc.pc # "idle" => rpc.hdr = rpc.sid
    /\ rpc.pc # "idle" /\ nSessFrames = 0 => rpc.hdr = None

C13_Witness ==
    /\ nSessFrames = 2
    /\ rpc.pc = "returned"
    /\ rpc.sid = "sess-2"
    /\ rpc.hdr = "sess-2"
    /\ client_id = "sess-2"

\* Whether a facet "2" holds a batch with records.
HasRecords(p) == p # Absent /\ Head(p) = "cbu" /\ Len(p) > 1

\* C15: while the bootstrap of a frame with a new client_id is awaited, the
\* id is stored already, the call of send_maps for it is made, and nothing
\* of the frame's facet "2" has been evaluated (no record decoded, fired or
\* in flight); when send_maps returns, the facet "2" of the same frame is
\* evaluated: its records, if any, are decoded and the first one is fired
\* in that step; and while records of a frame that brought a client_id are
\* delivered, the client_id is the one of that frame.
C15_IdThenBootstrapThenEvents ==
    /\ [](listenPc = "send_maps" =>
            /\ new_id # None /\ client_id = new_id
            /\ mapsSent = nSessFrames
            /\ inFlight = {} /\ rest = <<>> /\ Len(delivered) = srvSeq)
    /\ [](listenPc = "subscriber" /\ new_id # None =>
            /\ client_id = new_id
            /\ mapsSent = nSessFrames)
    /\ [][SendMapsDone =>
            /\ client_id' = client_id
            /\ mapsSent' = mapsSent
            /\ IF HasRecords(pending)
               THEN /\ listenPc' = "subscriber"
                    /\ batch_update' = Tail(pending)
                    /\ delivered' = Append(delivered, srvSeq + 1)
                    /\ inFlight' = {srvSeq + 1}
                    /\ new_id' = new_id
               ELSE /\ listenPc' = "waiting"
                    /\ delivered' = delivered]_vars

C15_Witness ==
    /\ listenPc = "subscriber"
    /\ nSessFrames = 2
    /\ mapsSent = 2
    /\ new_id = "sess-2"
    /\ client_id = "sess-2"
    /\ inFlight # {}
    /\ rest # <<>>

\* C16: when Channel.send_maps fails, the failure stays inside the frame
\* dispatcher: the receive loop does not end, and the facet "2" of the same
\* frame is evaluated as it is after a bootstrap that succeeded (its
\* records, if any, are decoded and the first one is fired).
C16_BootstrapFailureSilent ==
    [][SendMapsFails =>
         /\ listen_future' = listen_future
         /\ listenPc' # "done"
         /\ IF HasRecords(pending)
            THEN /\ listenPc' = "subscriber"
                 /\ batch_update' = Tail(pending)
                 /\ delivered' = Append(delivered, srvSeq + 1)
            ELSE listenPc' = "waiting"]_vars

\* The step hands a frame to _on_receive_array.
FrameReceived == nFrames' = nFrames + 1

\* C22: the step that handles a keep-alive frame leaves the client_id, the
\* active client state, _last_active_secs, the email and the resource of the
\* header template as they are, sends no bootstrap map, delivers no record
\* to the subscribers and leaves the listen task waiting for the next frame.
C22_KeepaliveIsNoop ==
    [][FrameReceived /\ last_frame' = "noop"
       => /\ UNCHANGED <<client_id, active_client_state, last_active_secs,
                         email, resource>>
          /\ UNCHANGED <<mapsSent, delivered, inFlight, srvSeq>>
          /\ listenPc' = "waiting"]_vars

\* A keep-alive has just been handled by a client that has a client_id, an
\* email, an ACTIVE state it asserted itself, a header with the resource, a
\* bootstrap sent and a record delivered.
C22_Witness ==
    /\ last_frame = "noop"
    /\ nFrames = 2 /\ nSessFrames = 1 /\ mapsSent = 1
    /\ client_id # None /\ email # None /\ resource = client_id
    /\ active_client_state = IS_ACTIVE /\ last_active_secs = now
    /\ delivered # <<>>

\* The step runs lines 198-212 for a facet "2" that does not start with
\* "cbu": at once for a frame without facet "3", after send_maps otherwise.
IgnoredPayloadHandled ==
    \/ FrameReceived /\ last_frame' = "ignored" /\ listenPc' # "send_maps"
    \/ SendMapsDone /\ last_frame = "ignored"

\* C23: handling a facet "2" whose marker is not "cbu" delivers no record,
\* decodes none, leaves the active client state as it is, raises nothing
\* (the listen task and its future are as before) and leaves the listen
\* task waiting; and from there the next frame is taken and its records
\* are delivered.
C23_OtherMarkerIgnored ==
    /\ [][IgnoredPayloadHandled
          => /\ UNCHANGED <<delivered, inFlight, rest, batch_update, srvSeq>>
             /\ UNCHANGED <<active_client_state, listen_future, connErr>>
             /\ listenPc' = "waiting"]_vars
    /\ [][FrameReceived /\ last_frame' = "ignored"
          => UNCHANGED <<delivered, inFlight, active_client_state,
                         listen_future>>]_vars
    /\ [](last_frame = "ignored" /\ ReadyForFrame /\ nFrames < MaxFrames
          => ENABLED (ReceiveFrame /\ delivered' # delivered))

\* A frame that brought a client_id and a facet "2" with another marker has
\* been handled after a batch was delivered: the records delivered are those
\* of the batch, and the listen task waits for the next frame.
C23_Witness ==
    /\ last_frame = "ignored"
    /\ nFrames = 2 /\ nSessFrames = 1 /\ mapsSent = 1
    /\ listenPc = "waiting" /\ pending = Absent
    /\ Len(delivered) = srvSeq /\ srvSeq > 0
    /\ active_client_state = batch_update[Len(batch_update)]
    /\ listen_future = "pending"

\* C25: a call of a request method passes at most one request to
\* http_utils.fetch; when the fetch is over the call is over, whether it
\* returns the response, raises for a status other than OK or raises the
\* failure of the fetch; and no step of the call changes the active client
\* state, _last_active_secs, the email or the client_id.
C25_OnePostNoSideEffect ==
    /\ [](rpc.nFetch <= 1)
    /\ [][rpc.pc = "fetch" /\ rpc' # rpc
          => /\ rpc'.pc \in {"returned", "raised"}
             /\ rpc'.nFetch = rpc.nFetch
             /\ rpc'.endpoint = rpc.endpoint]_vars
    /\ [][rpc' # rpc
          => UNCHANGED <<active_client_state, last_active_secs, email,
                         client_id>>]_vars

\* A request method called by a client with a client_id and a reported
\* state has raised the failure of its one fetch.
C25_Witness ==
    /\ rpc.pc = "raised" /\ rpc.nFetch = 1
    /\ \E o \in rpc.resp : o.failed
    /\ rpc.sid # None /\ client_id = rpc.sid
    /\ active_client_state \in ReportedStates

(***************************************************************************)
(* Claims about set_active                                                 *)
(***************************************************************************)
Callers == 1..MaxCallers
Invoked == {c \in Callers : sa[c].pc # "idle"}

RECURSIVE Total(_, _)
Total(S, counter) ==
    IF S = {} THEN 0
    ELSE LET c == CHOOSE x \in S : TRUE
         IN  sa[c][counter] + Total(S \ {c}, counter)

\* The sets of calls of set_active that all found the state ACTIVE and were
\* all made within SETACTIVECLIENT_LIMIT_SECS seconds of each other.
ActiveWindows ==
    {S \in SUBSET Invoked :
        /\ S # {}
        /\ \A c \in S : sa[c].wasActive
        /\ \A c, d \in S : sa[d].t0 - sa[c].t0 <= SETACTIVECLIENT_LIMIT_SECS}

\* C3, as stated: the calls of set_active made within 60 seconds of each
\* other while the state was ACTIVE issue at most one network request in
\* total, identity lookups included.
C3_AtMostOneNetworkCall ==
    \A S \in ActiveWindows : Total(S, "nLookup") + Total(S, "nAssert") <= 1

\* C3, amended: such calls issue at most one setactiveclient request in
\* total, and at most one getselfinfo request (made before it by the same
\* call, when the email is not known yet): at most one call of the window
\* issues anything.
C3_AtMostOneAssertion ==
    \A S \in ActiveWindows :
        /\ Total(S, "nAssert") <= 1
        /\ Total(S, "nLookup") <= 1
        /\ Cardinality({c \in S : sa[c].nLookup + sa[c].nAssert > 0}) <= 1

C3_Witness ==
    \E S \in ActiveWindows :
        /\ Cardinality(S) >= 2
        /\ \A c \in S : sa[c].pc = "returned"
        /\ Total(S, "nAssert") = 1
        /\ Total(S, "nLookup") = 1

\* C4: a call of set_active that found the state not ACTIVE (never set, or
\* set to another value by a StateUpdate) and both the client_id and the
\* email known has issued exactly one setactiveclient request, and no other
\* request, from its first step on and whatever last_active_secs was.
C4_ExactlyOneAssertion ==
    \A c \in Invoked :
        ~sa[c].wasActive /\ sa[c].ready =>
            /\ sa[c].nAssert = 1
            /\ sa[c].nLookup = 0
            /\ sa[c].pc \in {"assert", "returned"}

C4_Witness ==
    \E c \in Invoked :
        /\ ~sa[c].wasActive /\ sa[c].ready
        /\ sa[c].pc = "returned"
        /\ sa[c].nAssert = 1
        /\ \E d \in Invoked : d < c /\ sa[c].t0 - sa[d].t0 <= 1

\* Two calls of set_active, and no more, made within 1 second of each other
\* on a client that has never received a client_id.
TwoEarlyCalls ==
    /\ nSessFrames = 0
    /\ client_id = None
    /\ Invoked = {1, 2}
    /\ sa[2].t0 - sa[1].t0 <= 1

\* C5, as stated: after two such calls no network request has been issued
\* and the active client state is still not set.  (Taken with the cookies
\* complete, so that no call ends in the KeyError of a missing cookie.)
C5_NoCallStateUnset ==
    TwoEarlyCalls /\ cookies = RequiredSet =>
        /\ Total(Invoked, "nLookup") + Total(Invoked, "nAssert") = 0
        /\ active_client_state = None

\* C5, amended: after two such calls no setactiveclient request has been
\* issued; the state is set (the first call marks it ACTIVE before it looks
\* at the client_id) and, as long as no StateUpdate has been dispatched, it
\* is ACTIVE, the first call has issued at most one getselfinfo request and
\* the second call has issued nothing.
C5_NoAssertionStateActive ==
    TwoEarlyCalls =>
        /\ Total(Invoked, "nAssert") = 0
        /\ active_client_state # None
        /\ srvSeq = 0 =>
             /\ active_client_state = IS_ACTIVE
             /\ sa[1].nLookup <= 1
             /\ sa[2].nLookup = 0

C5_Witness ==
    /\ TwoEarlyCalls
    /\ srvSeq = 0
    /\ sa[1].pc = "returned" /\ sa[2].pc = "returned"
    /\ sa[1].nLookup = 1
    /\ email # None
    /\ active_client_state = IS_ACTIVE

Awaiting == {c \in Callers : sa[c].pc \in {"lookup", "assert"}}

\* C17: the step of set_active that finds a call needed leaves the state
\* ACTIVE and last_active_secs at the time of the call, whether or not it
\* issues a request (no request of the call is in flight before that: while
\* one is, last_active_secs is not older than the call); a call that starts
\* while another one awaits its request, at most 60 seconds after that one
\* started and with the state still ACTIVE (no StateUpdate made it
\* something else), returns in its first step, issues nothing and writes
\* nothing; and two setactiveclient requests in flight belong to calls made
\* more than 60 seconds apart or with the state not ACTIVE at the later one.
C17_OptimisticUpdate ==
    /\ [][\A c \in Callers :
             /\ sa[c].pc = "idle" /\ sa'[c].pc # "idle"
             /\ NeedsCall(active_client_state, last_active_secs, now)
             => /\ active_client_state' = IS_ACTIVE
                /\ last_active_secs' = now]_vars
    /\ [](\A c \in Awaiting : last_active_secs >= sa[c].t0)
    /\ [][\A d \in Callers :
             /\ sa[d].pc = "idle" /\ sa'[d].pc # "idle"
             /\ active_client_state = IS_ACTIVE
             /\ \E c \in Awaiting : now - sa[c].t0 <= SETACTIVECLIENT_LIMIT_SECS
             => /\ sa'[d].pc = "returned"
                /\ sa'[d].nLookup = 0 /\ sa'[d].nAssert = 0
                /\ UNCHANGED <<active_client_state, last_active_secs>>]_vars
    /\ [](\A c, d \in Callers :
             c < d /\ sa[c].pc = "assert" /\ sa[d].pc = "assert"
             => \/ sa[d].t0 - sa[c].t0 > SETACTIVECLIENT_LIMIT_SECS
                \/ ~sa[d].wasActive)

C17_Witness ==
    /\ sa[1].pc = "assert" /\ ~sa[1].wasActive
    /\ sa[2].pc = "returned" /\ sa[2].wasActive
    /\ sa[2].t0 - sa[1].t0 = 1
    /\ sa[2].nLookup = 0 /\ sa[2].nAssert = 0
    /\ active_client_state = IS_ACTIVE
    /\ last_active_secs = sa[1].t0

\* C18: a call of set_active whose getselfinfo request failed has returned
\* and has issued no setactiveclient request; the step in which the lookup
\* fails changes neither the state nor the email; and the call of
\* set_active made next after a call whose lookup failed, with the email
\* still unset, issues a getselfinfo request.
C18_FailedLookupRetried ==
    /\ [](\A c \in Callers :
             sa[c].lookupFailed => sa[c].pc = "returned" /\ sa[c].nAssert = 0)
    /\ [][\A c \in Callers :
             ~sa[c].lookupFailed /\ sa'[c].lookupFailed
             => UNCHANGED <<active_client_state, email>>]_vars
    /\ [][\A d \in Callers \ {1} :
             /\ sa[d].pc = "idle" /\ sa'[d].pc # "idle"
             /\ sa[d - 1].lookupFailed
             /\ email = None
             => sa'[d].nLookup = 1]_vars

\* C18, amended: as above, but the call made next issues the getselfinfo
\* request when it finds a call needed (the state no longer ACTIVE, or more
\* than 60 seconds gone since the failed call marked it ACTIVE); made
\* sooner, with the state still ACTIVE, it returns in its first step and
\* issues nothing, and the email stays unset.
C18_FailedLookupRetriedWhenNeeded ==
    /\ [](\A c \in Callers :
             sa[c].lookupFailed => sa[c].pc = "returned" /\ sa[c].nAssert = 0)
    /\ [][\A c \in Callers :
             ~sa[c].lookupFailed /\ sa'[c].lookupFailed
             => UNCHANGED <<active_client_state, email>>]_vars
    /\ [][\A d \in Callers \ {1} :
             /\ sa[d].pc = "idle" /\ sa'[d].pc # "idle"
             /\ sa[d - 1].lookupFailed
             /\ email = None
             => IF NeedsCall(active_client_state, last_active_secs, now)
                THEN sa'[d].nLookup = 1 /\ sa'[d].pc = "lookup"
                ELSE /\ sa'[d].nLookup = 0 /\ sa'[d].pc = "returned"
                     /\ email' = None]_vars

C18_Witness ==
    /\ sa[1].lookupFailed /\ sa[1].pc = "returned"
    /\ sa[2].pc = "lookup" /\ sa[2].wasActive
    /\ sa[2].t0 - sa[1].t0 = SETACTIVECLIENT_LIMIT_SECS + 1
    /\ email = None

\* C19: no setactiveclient request is issued before a client_id was
\* received; the step that issues one finds the email and the client_id
\* set, and the request asks, with is_active true, for a hold of
\* ACTIVE_TIMEOUT_SECS (120) seconds for the address "email/client_id" made
\* of the email and of the client_id of that moment; and a step of
\* set_active taken with the client_id unset issues no assertion and, when
\* the email is known by then, ends the call by returning (the one failure
\* such a step can end with is that of the lookup itself, line 151).
C19_AssertionNeedsIdAndEmail ==
    /\ [](\A c \in Callers : sa[c].nAssert > 0 =>
             /\ nSessFrames > 0
             /\ email \in Emails
             /\ \E id \in ClientIds :
                   sa[c].req = {[is_active |-> TRUE,
                                 full_jid |-> <<email, "/", id>>,
                                 timeout_secs |-> 120]})
    /\ [][\A c \in Callers : sa'[c].nAssert # sa[c].nAssert =>
             /\ sa'[c].nAssert = 1
             /\ email' \in Emails
             /\ client_id \in ClientIds
             /\ \A r \in sa'[c].req :
                   r.full_jid = <<email', "/", client_id>>]_vars
    /\ [][\A c \in Callers : sa'[c] # sa[c] /\ client_id = None =>
             /\ sa'[c].nAssert = 0
             /\ sa'[c].pc # "assert"
             /\ email' # None =>
                   \/ sa'[c].pc = "returned" /\ sa'[c].err = None
                   \/ sa'[c].pc = "raised" /\ sa'[c].err = "IndexError"]_vars

C19_Witness ==
    /\ nSessFrames = 2
    /\ sa[1].nAssert = 1
    /\ sa[1].req = {[is_active |-> TRUE, full_jid |-> <<"a@b", "/", "sess-1">>,
                     timeout_secs |-> 120]}
    /\ sa[2].pc = "assert"
    /\ sa[2].req = {[is_active |-> TRUE, full_jid |-> <<"a@b", "/", "sess-2">>,
                     timeout_secs |-> 120]}

\* C20: the first step of a call of set_active made with the state ACTIVE
\* and at most 60 seconds after last_active_secs (60 included) ends the
\* call: it returns, issues no request and changes neither the state nor
\* last_active_secs, the email, the client_id or the header; made with
\* another state, or more than 60 seconds after, the step marks the state
\* ACTIVE and sets last_active_secs to the time of the call, and goes on to
\* the lookup when the email is unset and the cookies are there.
C20_GateExact ==
    [][\A c \in Callers : sa[c].pc = "idle" /\ sa'[c].pc # "idle" =>
         IF active_client_state = IS_ACTIVE /\ now - last_active_secs <= 60
         THEN /\ sa'[c].pc = "returned"
              /\ sa'[c].err = None
              /\ sa'[c].nLookup = 0 /\ sa'[c].nAssert = 0
              /\ UNCHANGED <<active_client_state, last_active_secs, email,
                             client_id, resource>>
         ELSE /\ active_client_state' = IS_ACTIVE
              /\ last_active_secs' = now
              /\ email = None /\ cookies = RequiredSet =>
                    sa'[c].pc = "lookup" /\ sa'[c].nLookup = 1
              /\ email # None /\ client_id # None /\ cookies = RequiredSet =>
                    sa'[c].pc = "assert" /\ sa'[c].nAssert = 1]_vars

C20_Witness ==
    /\ sa[1].nAssert = 1
    /\ sa[2].pc = "returned" /\ sa[2].wasActive
    /\ sa[2].t0 - sa[1].t0 = 60
    /\ last_active_secs = sa[1].t0
    /\ sa[2].nLookup = 0 /\ sa[2].nAssert = 0

\* The step passes a setactiveclient request of call c to http_utils.fetch.
AssertionIssued(c) == sa'[c].nAssert > sa[c].nAssert

\* The step is the start of call c of set_active().
Starts(c) == sa[c].pc = "idle" /\ sa'[c].pc # "idle"

\* C21 as stated: a dispatched record overrides the state set_active wrote,
\* the next set_active() after a record with a state other than ACTIVE
\* requests setactiveclient at once, and any two setactiveclient requests are
\* more than 60 seconds apart or have such a record dispatched between them.
C21_RequestsSeparated ==
    /\ [][listenPc' = "subscriber" /\ delivered' # delivered
          => active_client_state'
               = batch_update'[Len(batch_update') - Len(rest')]]_vars
    /\ [][\A c \in Callers :
            /\ Starts(c)
            /\ active_client_state \in ReportedStates \ {IS_ACTIVE}
            /\ email # None /\ client_id # None /\ cookies = RequiredSet
            => AssertionIssued(c) /\ sa'[c].pc = "assert"]_vars
    /\ [][\A c \in Callers : \A a \in last_assertion :
            AssertionIssued(c)
            => now - a.t > SETACTIVECLIENT_LIMIT_SECS \/ a.lost]_vars

\* C21, with the distance taken between the calls of set_active() that make
\* the requests: a dispatched record overrides the state set_active wrote and
\* nothing else makes the state other than ACTIVE; the next set_active()
\* after such a record requests setactiveclient at once, however short the
\* time since the last request; and of two calls that both request
\* setactiveclient, the later one was made more than 60 seconds after the
\* earlier one or found the state other than ACTIVE.
C21_CallsSeparated ==
    /\ [][listenPc' = "subscriber" /\ delivered' # delivered
          => active_client_state'
               = batch_update'[Len(batch_update') - Len(rest')]]_vars
    /\ [][active_client_state' # active_client_state
          /\ active_client_state' # IS_ACTIVE
          => delivered' # delivered]_vars
    /\ [][\A c \in Callers :
            /\ Starts(c)
            /\ active_client_state \in ReportedStates \ {IS_ACTIVE}
            /\ email # None /\ client_id # None /\ cookies = RequiredSet
            => AssertionIssued(c) /\ sa'[c].pc = "assert"]_vars
    /\ [](\A c, d \in Callers :
            c < d /\ sa[c].nAssert = 1 /\ sa[d].nAssert = 1
            => \/ sa[d].t0 - sa[c].t0 > SETACTIVECLIENT_LIMIT_SECS
               \/ ~sa[d].wasActive)

\* Two calls made at the same time have both requested setactiveclient: the
\* first marked the state ACTIVE, a record reported another state, and the
\* second, with the email and the client_id known, asked again at once.
C21_Witness ==
    \E c, d \in Callers :
        /\ c < d
        /\ sa[c].nAssert = 1 /\ sa[d].nAssert = 1
        /\ sa[d].t0 = sa[c].t0
        /\ sa[d].ready /\ ~sa[d].wasActive
        /\ sa[d].pc = "assert"
        /\ last_assertion = {[t |-> sa[d].t0, lost |-> FALSE]}

\* The step is one of _on_receive_array: a frame is taken, or the handling
\* of the frame taken last goes on after send_maps or after the subscribers.
DispatcherStep == dispVars' # dispVars

\* The step is one of a call of set_active().
SetActiveStep == sa' # sa

\* C24: a step of the dispatcher leaves _last_active_secs and the email as
\* they are, a step of set_active() leaves the client_id as it is; the
\* active client state is written by these two only, _last_active_secs and
\* the email by set_active() only, the client_id by the dispatcher only,
\* with the id of the frame being handled; and a client_id, once there, is
\* never None again.
C24_WritersOfTheSession ==
    /\ [][DispatcherStep => UNCHANGED <<last_active_secs, email>>]_vars
    /\ [][SetActiveStep => UNCHANGED client_id]_vars
    /\ [][active_client_state' # active_client_state
          => DispatcherStep \/ SetActiveStep]_vars
    /\ [][last_active_secs' # last_active_secs \/ email' # email
          => SetActiveStep /\ ~DispatcherStep]_vars
    /\ [][client_id' # client_id
          => /\ FrameReceived /\ ~SetActiveStep
             /\ new_id' \in ClientIds
             /\ client_id' = new_id']_vars
    /\ [][client_id # None => client_id' # None]_vars

\* Both have written: the dispatcher has replaced a client_id by another
\* and overwritten the state set_active() had marked ACTIVE, and set_active()
\* has stored the email and the time of its request.
C24_Witness ==
    /\ nSessFrames = 2 /\ client_id = "sess-2"
    /\ delivered # <<>> /\ active_client_state = OTHER_ACTIVE
    /\ email # None /\ last_active_secs = StartTime + 1
    /\ \E c \in Callers : sa[c].nAssert = 1 /\ sa[c].req # {}

\* No call of set_active() made so far has raised or logged a failed lookup.
NoCallFailed == \A c \in Callers : sa[c].err = None /\ ~sa[c].lookupFailed

\* C26: when set_active() is called again and again without end, a
\* client_id is received at some time, and from some time on no call fails
\* (neither its lookup nor before its requests), a setactiveclient request
\* is eventually passed to http_utils.fetch, whatever the calls made before
\* the client_id came have written.
C26_AssertionEventuallyIssued ==
    ( /\ []<><<\E c \in Callers : SetActive(c)>>_vars
      /\ <>(client_id # None)
      /\ <>[]NoCallFailed )
    => <>(last_assertion # {})

\* A call made before any client_id came looked the email up, marked the
\* state ACTIVE and returned without a request; a call made more than 60
\* seconds later, with the state still ACTIVE and the client_id there, has
\* requested setactiveclient.
C26_Witness ==
    /\ sa[1].pc = "returned" /\ sa[1].nLookup = 1 /\ sa[1].nAssert = 0
    /\ ~sa[1].ready /\ ~sa[1].lookupFailed
    /\ sa[2].wasActive /\ sa[2].ready /\ sa[2].nAssert = 1
    /\ sa[2].t0 - sa[1].t0 > SETACTIVECLIENT_LIMIT_SECS
    /\ last_assertion # {}

\* C6: no call of set_active ends by raising.
C6_NeverPropagates ==
    \A c \in Callers : sa[c].pc # "raised"

(***************************************************************************)
(* Claims about the request path                                           *)
(***************************************************************************)
\* Reading the status and the description back from the text of a
\* NetworkError: the digits up to the first colon, and what stands between
\* the quote that follows it and the closing quote.
ColonAt(msg) ==
    CHOOSE i \in 2..Len(msg) :
        msg[i] = ":" /\ \A j \in 2..(i - 1) : msg[j] # ":"
DigitValue(ch) == CHOOSE d \in 0..9 : Digits[d + 1] = ch
RECURSIVE ToInt(_)
ToInt(ds) ==
    IF ds = <<>> THEN 0
    ELSE 10 * ToInt(SubSeq(ds, 1, Len(ds) - 1)) + DigitValue(ds[Len(ds)])
ParseStatus(msg) == ToInt(SubSeq(msg, 2, ColonAt(msg) - 1))
ParseDescription(msg) == SubSeq(msg, ColonAt(msg) + 3, Len(msg) - 1)

\* C7: for either endpoint, a request whose decoded response has the status
\* OK returns that response, and one whose decoded response has another
\* status raises a NetworkError whose text holds exactly that status and
\* that error description, and returns no response.
C7_StatusDecidesResult ==
    \A o \in rpc.resp :
        ~o.failed =>
            IF o.status = RESPONSE_STATUS_OK
            THEN /\ rpc.pc = "returned"
                 /\ rpc.result.kind = "return"
                 /\ rpc.result.value = {o}
            ELSE /\ rpc.pc = "raised"
                 /\ rpc.result.kind = "NetworkError"
                 /\ rpc.result.value = {}
                 /\ ParseStatus(rpc.result.msg) = o.status
                 /\ ParseDescription(rpc.result.msg) = o.description

C7_Witness ==
    /\ rpc.pc = "raised"
    /\ rpc.result.kind = "NetworkError"
    /\ \E o \in rpc.resp :
         ~o.failed /\ o.status = 13 /\ o.description # <<>>

\* C8: with one of the five required cookies missing, a request method has
\* issued no fetch, and once called it has raised a KeyError (not a
\* NetworkError).
C8_MissingCookieFailsFast ==
    cookies # RequiredSet =>
        /\ rpc.nFetch = 0
        /\ rpc.pc \in {"idle", "raised"}
        /\ rpc.pc = "raised" =>
             /\ rpc.result.kind = "KeyError"
             /\ rpc.result.kind # "NetworkError"
             /\ rpc.resp = {}

C8_Witness ==
    /\ cookies = RequiredSet \ {"SID"}
    /\ rpc.pc = "raised"
    /\ rpc.result = CookieError("SID")
    /\ rpc.nFetch = 0
    /\ client_id # None

\* C27: every id get_client_generated_id() returns for a request is a
\* 32-bit value, that is, an integer in 0 .. 2**32 - 1: its upper half is
\* below 2**16.
C27_IdIs32Bit ==
    \A id \in rpc.client_generated_id :
        /\ id.hi \in 0..(Half - 1)
        /\ id.lo \in 0..(Half - 1)

====
